---- MODULE Spec2Model ----
(***************************************************************************)
(* A model of get_data.py: RegulationsAPI (document, comments, comment)    *)
(* and main (fetch or reuse <doc_id>.json, enrich or reuse                 *)
(* enriched_<doc_id>.json, keyword filter, cotton.json / cotton.csv).      *)
(*                                                                         *)
(* Python values are records: None is [none |-> TRUE]; a str, list or dict *)
(* is [none |-> FALSE, str | list | items |-> ...].  A str is a sequence   *)
(* of one-character strings; a dict such as `comments` in                  *)
(* RegulationsAPI.comments is the sequence of its (key, value) items in    *)
(* insertion order; a JSON object with fixed keys is a TLA+ record.        *)
(***************************************************************************)
EXTENDS Integers, Sequences, FiniteSets, TLC

VARIABLES
    pc,            \* position of main / RegulationsAPI.comments
    runs,          \* number of runs of the script started so far
    session,       \* api.s: "none", "open" or "closed"
    today,         \* the calendar day datetime.now() last returned
    rawFile,       \* <doc_id>.json: Absent or the value json.dump stored
    enrichedFile,  \* enriched_<doc_id>.json: Absent or the stored value
    cottonFile,    \* cotton.json and cotton.csv: Absent or the stored records
    oldest,        \* comments(): oldest (the parsed commentStartDate)
    curr_date,     \* comments(): curr_date
    params,        \* comments(): params (page[number], filter[postedDate], ...)
    acc,           \* comments(): the local dict `comments` (or None)
    reqs,          \* the page requests of the comments() call, in order
    latest,        \* for each comment id served on a successful page, the record last served
    overlap,       \* whether a page served an id that an earlier page had served
    comments,      \* main(): comments
    summaries,     \* main(): the comment list as it entered the enrichment loop
    details,       \* what api.comment returned for each comment of the enrichment loop
    idx,           \* main(): position of the enrichment / filter loop
    cotton         \* main(): cotton

vars == <<pc, runs, session, today, rawFile, enrichedFile, cottonFile, oldest,
          curr_date, params, acc, reqs, latest, overlap, comments, summaries,
          details, idx, cotton>>

----------------------------------------------------------------------------
(* Bounds *)

\* datetime.max, as a day number: curr_date += timedelta(days=1) beyond it raises OverflowError
MaxDay == 2
\* the latest day the clock reaches
MaxNow == 1
\* the most page requests one comments() call issues in the model
MaxReqs == 3
\* the most comments one page carries
MaxPageLen == 2
\* the number of times the script is run
MaxRuns == 2

Tods == {0, 1}          \* times of day of a commentStartDate
Ids == {"c1", "c2"}     \* comment ids

----------------------------------------------------------------------------
(* Python values *)

None == [none |-> TRUE]
Str(s) == [none |-> FALSE, str |-> s]
List(s) == [none |-> FALSE, list |-> s]
Dict(d) == [none |-> FALSE, items |-> d]
Absent == [absent |-> TRUE]
File(v) == [absent |-> FALSE, value |-> v]

\* bool(v) for None, str, list, dict and JSON objects
Truthy(v) ==
    IF "none" \notin DOMAIN v THEN DOMAIN v # {}
    ELSE IF v.none THEN FALSE
    ELSE IF "str" \in DOMAIN v THEN Len(v.str) > 0
    ELSE IF "list" \in DOMAIN v THEN Len(v.list) > 0
    ELSE Len(v.items) > 0

\* `k in s` for two strs
StrIn(k, s) ==
    \E i \in 0..(Len(s) - Len(k)) : SubSeq(s, i + 1, i + Len(k)) = k

\* a.update(b) for two JSON objects: shallow, b's value on every key of b
ObjUpdate(a, b) ==
    [k \in DOMAIN a \cup DOMAIN b |-> IF k \in DOMAIN b THEN b[k] ELSE a[k]]

\* DictSet as a list would do it: every record appended, no key looked up
DictSetAppend(d, k, v) == Append(d, [k |-> k, v |-> v])

\* d[k] = v on the items of a dict: a present key keeps its position
DictSet(d, k, v) ==
    IF \E i \in 1..Len(d) : d[i].k = k
    THEN [i \in 1..Len(d) |-> IF d[i].k = k THEN [k |-> k, v |-> v] ELSE d[i]]
    ELSE Append(d, [k |-> k, v |-> v])

RECURSIVE DictComprehension(_, _)
\* {c["id"]: c for c in data}, built onto the items d
DictComprehension(d, data) ==
    IF data = <<>> THEN d
    ELSE DictComprehension(DictSet(d, Head(data).id, Head(data)), Tail(data))

RECURSIVE DictUpdate(_, _)
\* d.update(e) on the items of two dicts
DictUpdate(d, e) ==
    IF e = <<>> THEN d
    ELSE DictUpdate(DictSet(d, Head(e).k, Head(e).v), Tail(e))

\* comments.update({c["id"]: c for c in data["data"]})
MergePage(d, data) == DictUpdate(d, DictComprehension(<<>>, data))

\* list(d.values())
DictValues(d) == [i \in 1..Len(d) |-> d[i].v]

----------------------------------------------------------------------------
(* Dates *)

\* datetime.fromisoformat(date.replace("Z", "+00:00")): an ISO string
\* <<day, time of day, "Z">> becomes an aware datetime
parse_date(date) == [day |-> date[1], tod |-> date[2], tz |-> "+00:00"]

\* date.strftime("%m-%d-%Y"): the calendar day alone, time of day and zone dropped
fmt_date(date) == date.day

\* the test of the while loop
LoopCond(curr, now) == fmt_date(curr) # fmt_date(now)

\* datetime.now(): naive local time on calendar day d
Now(d) == [day |-> d, tod |-> 0]

\* the days the clock may show at its next reading
ClockNext == {d \in today..MaxNow : d <= today + 1}

----------------------------------------------------------------------------
(* The upstream API *)

\* a comment as the listing serves it: no content, no attachments
Summary(i, r) ==
    [id |-> i, links |-> r, attributes |-> [title |-> r, postedDate |-> r]]

\* a listing record whose attributes carry (null) content and attachments
SummaryFull(i, r) ==
    [id |-> i, links |-> r,
     attributes |-> [title |-> r, postedDate |-> r, content |-> None,
                     attachments |-> None]]

\* the records the listing may serve: two differing records per comment id
SummaryRecs == {Summary(i, 1) : i \in Ids} \cup {SummaryFull(i, 2) : i \in Ids}

\* the data a page of the listing may carry
PageData == UNION {[1..n -> SummaryRecs] : n \in 0..MaxPageLen}

\* the commentStartDate strings a document may carry
StartDates == {<<d, t, "Z">> : d \in 0..MaxDay, t \in Tods}

DocumentData(start) ==
    [id |-> "FSA-2020-0004-0003",
     attributes |-> [objectId |-> "obj", commentStartDate |-> start]]

txtPimaCotton == Str(<<"W","e"," ","g","r","o","w"," ","P","i","m","a"," ",
                       "c","o","t","t","o","n"," ","h","e","r","e">>)
txtUpper == Str(<<"C","O","T","T","O","N">>)
txtCotton == Str(<<"C","o","t","t","o","n","s">>)
txtPima == Str(<<"a"," ","p","i","m","a">>)
txtPrefix == Str(<<"c","o","t","t","o"," ","P","i","m">>)
txtEmpty == Str(<<>>)

Attachment(urls) == [fileFormats |-> [i \in 1..Len(urls) |-> [fileUrl |-> urls[i]]]]
TwoFormats == List(<<Attachment(<<"u1", "u2">>)>>)
TwoAttachments == List(<<Attachment(<<"u1">>), Attachment(<<"u2", "u3">>)>>)

Detail(i, content, attachments) ==
    [id |-> i, relationships |-> "rel",
     attributes |-> [title |-> 0, content |-> content, attachments |-> attachments]]

\* the records documentdetails/<comment id> may answer with
DetailRecs(i) ==
    { Detail(i, txtPimaCotton, TwoFormats), Detail(i, txtUpper, TwoFormats),
      Detail(i, txtCotton, List(<<>>)), Detail(i, txtPima, None),
      Detail(i, txtPrefix, TwoAttachments), Detail(i, None, TwoFormats),
      Detail(i, txtEmpty, None) }

OkResponse(json) == [status_code |-> 200, json |-> json]
ErrResponse == [status_code |-> 404]

----------------------------------------------------------------------------
(* RegulationsAPI *)

\* RegulationsAPI.document (and .comment, which calls it): data["data"] or None
document(resp) ==
    IF resp.status_code = 200 THEN resp.json.data ELSE None

\* params as built before the loop
InitParams(object_id, start) ==
    [commentOnId |-> object_id, page |-> 1, sort |-> "-postedDate",
     postedDate |-> fmt_date(start)]

\* params after a successful page: page += 1, and once the page was the last
\* of its day, the filter moves to the new curr_date and the page back to 1
NextParams(p, lastPage, curr) ==
    IF lastPage THEN [p EXCEPT !.postedDate = fmt_date(curr), !.page = 1]
    ELSE [p EXCEPT !.page = p.page + 1]

\* curr_date + timedelta(days=1)
AddDay(date) == [date EXCEPT !.day = date.day + 1]

\* curr_date after a successful page
NextDate(curr, lastPage) == IF lastPage THEN AddDay(curr) ELSE curr

\* OnPageFailure without line 86: what was merged so far is kept
OnPageFailureKeep(a) == a

\* comments after a failed page: comments = None
OnPageFailure(a) == None

\* return list(comments.values()) if comments else None
CommentsReturn(a) ==
    IF Truthy(a) THEN List(DictValues(a.items)) ELSE None

\* the record last served for each id, after one more page
LatestAfter(l, data) ==
    [i \in DOMAIN l \cup {data[j].id : j \in 1..Len(data)} |->
        IF \E j \in 1..Len(data) : data[j].id = i
        THEN data[CHOOSE j \in 1..Len(data) :
                     /\ data[j].id = i
                     /\ \A m \in (j + 1)..Len(data) : data[m].id # i]
        ELSE l[i]]

NoFrame ==
    /\ oldest' = None
    /\ curr_date' = None
    /\ params' = None
    /\ acc' = None
    /\ reqs' = <<>>
    /\ latest' = <<>>
    /\ overlap' = FALSE

\* one request of the listing, as the session sent it
Request(now, ok, lastPage) ==
    [posted |-> params.postedDate, page |-> params.page,
     cur |-> fmt_date(curr_date), now |-> now, ok |-> ok, last |-> lastPage]

\* lines 53-56: the document lookup answers non-200; comments() returns None
DocNotFound ==
    /\ pc = "document"
    /\ document(ErrResponse) = None
    /\ comments' = None
    /\ pc' = "write_raw"
    /\ UNCHANGED <<runs, session, today, rawFile, enrichedFile, cottonFile,
                   oldest, curr_date, params, acc, reqs, latest, overlap, summaries,
                   details, idx, cotton>>

\* lines 53-71: the document is found; the loop's locals are set up
DocFound ==
    /\ pc = "document"
    /\ \E start \in StartDates :
          LET doc == document(OkResponse([data |-> DocumentData(start)]))
              o == parse_date(doc.attributes.commentStartDate)
          IN /\ oldest' = o
             /\ params' = InitParams(doc.attributes.objectId, o)
             /\ curr_date' = o
    /\ acc' = Dict(<<>>)
    /\ pc' = "loop"
    /\ UNCHANGED <<runs, session, today, rawFile, enrichedFile, cottonFile,
                   reqs, latest, overlap, comments, summaries, details, idx, cotton>>

\* lines 72-83: the loop test passes and the page request answers 200
PageOk ==
    /\ pc = "loop"
    /\ Len(reqs) < MaxReqs
    /\ \E now \in {n \in ClockNext : LoopCond(curr_date, Now(n))},
          lastPage \in {l \in BOOLEAN : ~(l /\ curr_date.day = MaxDay)},
          data \in PageData :
          /\ today' = now
          /\ acc' = Dict(MergePage(acc.items, data))
          /\ curr_date' = NextDate(curr_date, lastPage)
          /\ params' = NextParams(params, lastPage, NextDate(curr_date, lastPage))
          /\ reqs' = Append(reqs, Request(now, TRUE, lastPage))
          /\ latest' = LatestAfter(latest, data)
          /\ overlap' = (overlap \/ \E j \in 1..Len(data) : data[j].id \in DOMAIN latest)
    /\ UNCHANGED <<pc, runs, session, rawFile, enrichedFile, cottonFile, oldest,
                   comments, summaries, details, idx, cotton>>

\* lines 72-81: as PageOk, but curr_date is datetime.max's day and the page is
\* the day's last: curr_date += timedelta(days=1) raises OverflowError,
\* which nothing catches
PageOverflow ==
    /\ pc = "loop"
    /\ Len(reqs) < MaxReqs
    /\ curr_date.day = MaxDay
    /\ \E now \in {n \in ClockNext : LoopCond(curr_date, Now(n))},
          data \in PageData :
          /\ today' = now
          /\ acc' = Dict(MergePage(acc.items, data))
          /\ params' = [params EXCEPT !.page = params.page + 1]
          /\ reqs' = Append(reqs, Request(now, TRUE, TRUE))
          /\ latest' = LatestAfter(latest, data)
          /\ overlap' = (overlap \/ \E j \in 1..Len(data) : data[j].id \in DOMAIN latest)
    /\ pc' = "OverflowError"
    /\ UNCHANGED <<runs, session, rawFile, enrichedFile, cottonFile, oldest,
                   curr_date, comments, summaries, details, idx, cotton>>

\* lines 72-73, 84-89: the loop test passes and the page request answers
\* non-200: comments = None, break, return None
PageFail ==
    /\ pc = "loop"
    /\ Len(reqs) < MaxReqs
    /\ \E now \in ClockNext :
          /\ LoopCond(curr_date, Now(now))
          /\ today' = now
          /\ reqs' = Append(reqs, Request(now, FALSE, FALSE))
    /\ acc' = OnPageFailure(acc)
    /\ comments' = CommentsReturn(OnPageFailure(acc))
    /\ pc' = "write_raw"
    /\ UNCHANGED <<runs, session, rawFile, enrichedFile, cottonFile, oldest,
                   curr_date, params, latest, overlap, summaries, details, idx, cotton>>

\* lines 72, 89: the loop test fails; comments() returns
LoopExit ==
    /\ pc = "loop"
    /\ \E now \in ClockNext :
          /\ ~LoopCond(curr_date, Now(now))
          /\ today' = now
    /\ comments' = CommentsReturn(acc)
    /\ pc' = "write_raw"
    /\ UNCHANGED <<runs, session, rawFile, enrichedFile, cottonFile, oldest,
                   curr_date, params, acc, reqs, latest, overlap, summaries, details,
                   idx, cotton>>

----------------------------------------------------------------------------
(* main *)

\* comment.update(c) when api.comment found the detail (lines 124-126)
Enrich(comment, c) == IF Truthy(c) THEN ObjUpdate(comment, c) ELSE comment

RECURSIVE Flatten(_)
Flatten(ss) == IF ss = <<>> THEN <<>> ELSE Head(ss) \o Flatten(Tail(ss))

\* a_url of lines 139-144: every fileUrl of every attachment's fileFormats
AttachmentUrls(attachments) ==
    IF Truthy(attachments)
    THEN Flatten([i \in 1..Len(attachments.list) |->
            [j \in 1..Len(attachments.list[i].fileFormats) |->
                attachments.list[i].fileFormats[j].fileUrl]])
    ELSE <<>>

kwcotton == <<"c","o","t","t","o","n">>
kwCotton == <<"C","o","t","t","o","n">>
kwpima == <<"p","i","m","a">>
kwPima == <<"P","i","m","a">>

\* KeywordMatch without the capitalized variants
KeywordMatchLower(content) ==
    IF content = None THEN FALSE
    ELSE StrIn(kwcotton, content.str) \/ StrIn(kwpima, content.str)

\* the test of lines 145-146
KeywordMatch(content) ==
    IF content = None THEN FALSE
    ELSE \/ StrIn(kwcotton, content.str) \/ StrIn(kwCotton, content.str)
         \/ StrIn(kwpima, content.str) \/ StrIn(kwPima, content.str)

\* the record of lines 147-151
CottonRecord(comment) ==
    [id |-> comment.id, comment |-> comment.attributes.content,
     attachments |-> AttachmentUrls(comment.attributes.attachments)]

\* cotton after the loop body of lines 136-151 for one comment
FilterOne(out, comment) ==
    IF KeywordMatch(comment.attributes.content)
    THEN Append(out, CottonRecord(comment))
    ELSE out

\* whether lines 136-140 find every key they subscript
HasKeys(comment) ==
    /\ {"id", "attributes"} \subseteq DOMAIN comment
    /\ {"content", "attachments"} \subseteq DOMAIN comment.attributes

\* lines 106-113: the session is opened; <doc_id>.json is absent, so
\* api.comments is called
StartFetch ==
    /\ pc = "start"
    /\ rawFile = Absent
    /\ session' = "open"
    /\ pc' = "document"
    /\ UNCHANGED <<runs, today, rawFile, enrichedFile, cottonFile, oldest,
                   curr_date, params, acc, reqs, latest, overlap, comments, summaries,
                   details, idx, cotton>>

\* lines 106-112, 116-118: <doc_id>.json exists and is loaded
StartCached ==
    /\ pc = "start"
    /\ rawFile # Absent
    /\ session' = "open"
    /\ comments' = rawFile.value
    /\ pc' = "enrich_check"
    /\ UNCHANGED <<runs, today, rawFile, enrichedFile, cottonFile, oldest,
                   curr_date, params, acc, reqs, latest, overlap, summaries, details,
                   idx, cotton>>

\* lines 113-115: whatever api.comments returned is dumped to <doc_id>.json
WriteRaw ==
    /\ pc = "write_raw"
    /\ rawFile' = File(comments)
    /\ pc' = "enrich_check"
    /\ NoFrame
    /\ UNCHANGED <<runs, session, today, enrichedFile, cottonFile, comments,
                   summaries, details, idx, cotton>>

\* lines 120-122: no enriched file; the enrichment loop starts
EnrichBegin ==
    /\ pc = "enrich_check"
    /\ enrichedFile = Absent
    /\ comments # None
    /\ summaries' = comments.list
    /\ details' = <<>>
    /\ idx' = 1
    /\ pc' = "enrich"
    /\ UNCHANGED <<runs, session, today, rawFile, enrichedFile, cottonFile,
                   oldest, curr_date, params, acc, reqs, latest, overlap, comments,
                   cotton>>

\* line 122: enumerate(None) raises TypeError
EnrichTypeError ==
    /\ pc = "enrich_check"
    /\ enrichedFile = Absent
    /\ comments = None
    /\ pc' = "TypeError"
    /\ UNCHANGED <<runs, session, today, rawFile, enrichedFile, cottonFile,
                   oldest, curr_date, params, acc, reqs, latest, overlap, comments,
                   summaries, details, idx, cotton>>

\* lines 130-134: the enriched file exists and is loaded
EnrichCached ==
    /\ pc = "enrich_check"
    /\ enrichedFile # Absent
    /\ comments' = enrichedFile.value
    /\ idx' = 1
    /\ cotton' = <<>>
    /\ pc' = "filter"
    /\ UNCHANGED <<runs, session, today, rawFile, enrichedFile, cottonFile,
                   oldest, curr_date, params, acc, reqs, latest, overlap, summaries,
                   details>>

\* lines 122-126: one comment's detail lookup and merge
EnrichStep ==
    /\ pc = "enrich"
    /\ idx <= Len(comments.list)
    /\ \E resp \in {ErrResponse} \cup
                   {OkResponse([data |-> d]) : d \in DetailRecs(comments.list[idx].id)} :
          LET c == document(resp)
          IN /\ comments' = List([comments.list EXCEPT
                                    ![idx] = Enrich(comments.list[idx], c)])
             /\ details' = Append(details, c)
    /\ idx' = idx + 1
    /\ UNCHANGED <<pc, runs, session, today, rawFile, enrichedFile, cottonFile,
                   oldest, curr_date, params, acc, reqs, latest, overlap, summaries,
                   cotton>>

\* lines 128-129, 134: the enriched list is dumped; the filter loop starts
WriteEnriched ==
    /\ pc = "enrich"
    /\ idx > Len(comments.list)
    /\ enrichedFile' = File(comments)
    /\ idx' = 1
    /\ cotton' = <<>>
    /\ pc' = "filter"
    /\ UNCHANGED <<runs, session, today, rawFile, cottonFile, oldest,
                   curr_date, params, acc, reqs, latest, overlap, comments, summaries,
                   details>>

\* lines 135-151: one comment through the keyword filter
FilterStep ==
    /\ pc = "filter"
    /\ idx <= Len(comments.list)
    /\ HasKeys(comments.list[idx])
    /\ cotton' = FilterOne(cotton, comments.list[idx])
    /\ idx' = idx + 1
    /\ UNCHANGED <<pc, runs, session, today, rawFile, enrichedFile, cottonFile,
                   oldest, curr_date, params, acc, reqs, latest, overlap, comments,
                   summaries, details>>

\* lines 136-140: a subscripted key is missing; KeyError
FilterKeyError ==
    /\ pc = "filter"
    /\ idx <= Len(comments.list)
    /\ ~HasKeys(comments.list[idx])
    /\ pc' = "KeyError"
    /\ UNCHANGED <<runs, session, today, rawFile, enrichedFile, cottonFile,
                   oldest, curr_date, params, acc, reqs, latest, overlap, comments,
                   summaries, details, idx, cotton>>

\* lines 153-161: cotton.json and cotton.csv are written, the session closed
Finish ==
    /\ pc = "filter"
    /\ idx > Len(comments.list)
    /\ cottonFile' = File(cotton)
    /\ session' = "closed"
    /\ pc' = "done"
    /\ UNCHANGED <<runs, today, rawFile, enrichedFile, oldest, curr_date,
                   params, acc, reqs, latest, overlap, comments, summaries, details,
                   idx, cotton>>

Crashed == pc \in {"OverflowError", "TypeError", "KeyError"}

\* the script is run again: a new process, the files and the clock remain
Rerun ==
    /\ pc = "done" \/ Crashed
    /\ runs < MaxRuns
    /\ runs' = runs + 1
    /\ pc' = "start"
    /\ session' = "none"
    /\ NoFrame
    /\ comments' = None
    /\ summaries' = <<>>
    /\ details' = <<>>
    /\ idx' = 0
    /\ cotton' = <<>>
    /\ UNCHANGED <<today, rawFile, enrichedFile, cottonFile>>

Init ==
    /\ pc = "start"
    /\ runs = 1
    /\ session = "none"
    /\ today \in 0..MaxNow
    /\ rawFile = Absent
    /\ enrichedFile = Absent
    /\ cottonFile = Absent
    /\ oldest = None
    /\ curr_date = None
    /\ params = None
    /\ acc = None
    /\ reqs = <<>>
    /\ latest = <<>>
    /\ overlap = FALSE
    /\ comments = None
    /\ summaries = <<>>
    /\ details = <<>>
    /\ idx = 0
    /\ cotton = <<>>

Next ==
    \/ StartFetch \/ StartCached
    \/ DocNotFound \/ DocFound
    \/ PageOk \/ PageOverflow \/ PageFail \/ LoopExit
    \/ WriteRaw
    \/ EnrichBegin \/ EnrichTypeError \/ EnrichCached
    \/ EnrichStep \/ WriteEnriched
    \/ FilterStep \/ FilterKeyError \/ Finish
    \/ Rerun

Spec == Init /\ [][Next]_vars

----------------------------------------------------------------------------
(* Properties *)

FrameLive == pc \in {"loop", "write_raw", "OverflowError"} /\ oldest # None
AllOk == \A i \in 1..Len(reqs) : reqs[i].ok
AllLastOk == \A i \in 1..Len(reqs) : reqs[i].ok /\ reqs[i].last
Returned == pc = "write_raw"

\* C1: when the document exists, every page request succeeded and no page
\* carried a comment, comments() returns an empty list, which differs from
\* the None it returns on failure
C1_EmptyListNotFailure ==
    (Returned /\ oldest # None /\ AllOk /\ DOMAIN latest = {})
        => comments = List(<<>>)

\* C2: a non-success page response is the last request of the call, the call
\* has ended, nothing merged before it survives and None is returned
C2_FailureAborts ==
    \A i \in 1..Len(reqs) :
        ~reqs[i].ok => /\ i = Len(reqs)
                       /\ Returned
                       /\ acc = None
                       /\ comments = None

\* a page failed after an earlier page had merged a comment
C2_Witness ==
    /\ Len(reqs) >= 2
    /\ ~reqs[Len(reqs)].ok
    /\ DOMAIN latest # {}
    /\ Returned

\* vals holds exactly one entry per served id, the record last served for it
OnePerId(vals) ==
    /\ Len(vals) = Cardinality(DOMAIN latest)
    /\ \A j \in 1..Len(vals) :
          vals[j].id \in DOMAIN latest /\ vals[j] = latest[vals[j].id]
    /\ \A i \in DOMAIN latest : \E j \in 1..Len(vals) : vals[j].id = i

\* C3: after any successful pages, overlapping or not, the accumulated
\* mapping and the returned list hold exactly one entry per comment id, the
\* record of the most recent page that carried the id
C3_OneEntryPerId ==
    /\ (FrameLive /\ acc # None) =>
          /\ OnePerId(DictValues(acc.items))
          /\ \A j \in 1..Len(acc.items) : acc.items[j].k = acc.items[j].v.id
    /\ (Returned /\ comments # None) => OnePerId(comments.list)

\* a returned list after an id came back on a later page with another record
C3_Witness ==
    /\ Returned
    /\ overlap
    /\ comments # None
    /\ Len(reqs) >= 2
    /\ \E j \in 1..Len(comments.list) : comments.list[j].links = 2

\* C4: under an upstream that answers every request with success and
\* lastPage = true, request i is page 1 of day commentStartDate + (i - 1), and
\* once the loop has ended it ended by its test, at cursor = today
C4_DayAdvanceTerminates ==
    (FrameLive /\ AllLastOk) =>
        /\ \A i \in 1..Len(reqs) :
              reqs[i].page = 1 /\ reqs[i].cur = fmt_date(oldest) + (i - 1)
        /\ pc # "loop" => (Returned /\ fmt_date(curr_date) = today)

\* C5: when every page request succeeded, comments() returns exactly the
\* comments served on the pages it fetched
C5_ReturnsExactlyServed ==
    (Returned /\ oldest # None /\ AllOk) =>
        /\ comments # None
        /\ {comments.list[j] : j \in 1..Len(comments.list)}
               = {latest[i] : i \in DOMAIN latest}

\* C6: <doc_id>.json, when it exists, holds a comment list that a successful
\* comments() call produced, never the no-result of a failed one
C6_RawFileCompleteOrAbsent ==
    rawFile # Absent => rawFile.value # None

\* C7: a run never aborts on a no-result comment list, nor on a comment whose
\* detail lookup returned not-found
C7_NotFoundNonFatal ==
    /\ pc # "TypeError"
    /\ (pc = "KeyError" /\ idx <= Len(details)) => details[idx] # None

\* what C8 asks of enriched record e, made from summary s and detail d
Preserved(s, d, e) ==
    IF d = None THEN e = s
    ELSE /\ \A k \in DOMAIN d \ {"attributes"} : e[k] = d[k]
         /\ \A k \in DOMAIN d.attributes : e.attributes[k] = d.attributes[k]
         /\ \A k \in DOMAIN s \ DOMAIN d : k \in DOMAIN e /\ e[k] = s[k]
         /\ \A k \in DOMAIN s.attributes \ DOMAIN d.attributes :
               k \in DOMAIN e.attributes /\ e.attributes[k] = s.attributes[k]

\* C8: after enrichment every field of the detail has the detail's value, every
\* summary-only field (top level or under attributes) keeps its summary
\* value, and a comment whose detail was not found is unchanged
C8_EnrichPreserves ==
    pc \in {"enrich", "filter", "done", "KeyError"} =>
        \A i \in 1..Len(details) :
            Preserved(summaries[i], details[i], comments.list[i])

Capital(ch) == IF ch = "c" THEN "C" ELSE IF ch = "p" THEN "P" ELSE ch
Capitalized(w) == [w EXCEPT ![1] = Capital(w[1])]
Keywords == {kwcotton, kwpima}

\* content is a str holding a keyword, as written or capitalized
Mentions(content) ==
    /\ content # None
    /\ \E w \in Keywords :
          StrIn(w, content.str) \/ StrIn(Capitalized(w), content.str)

\* the comments the filter loop has been through
Filtered == 1..(idx - 1)

\* C9: the filter emits {id, comment, attachments} for a comment exactly when
\* its content is non-null and holds a keyword in either capitalization; null
\* content is never emitted, whatever the attachments
C9_KeywordFilter ==
    pc \in {"filter", "done", "KeyError"} =>
        /\ Len(cotton) =
              Cardinality({i \in Filtered : Mentions(comments.list[i].attributes.content)})
        /\ \A i \in Filtered :
              Mentions(comments.list[i].attributes.content) <=>
                  \E j \in 1..Len(cotton) :
                      /\ cotton[j].id = comments.list[i].id
                      /\ cotton[j].comment = comments.list[i].attributes.content
        /\ \A j \in 1..Len(cotton) :
              /\ DOMAIN cotton[j] = {"id", "comment", "attachments"}
              /\ cotton[j].comment # None
              /\ \E i \in Filtered : cotton[j].id = comments.list[i].id
        /\ pc = "done" => cottonFile = File(cotton)

\* a finished run that emitted the "Pima cotton" comment with its two file
\* URLs and dropped a comment with null content that had attachments
C9_Witness ==
    /\ pc = "done"
    /\ Len(comments.list) = 2
    /\ Len(cotton) = 1
    /\ cotton[1].comment = txtPimaCotton
    /\ cotton[1].attachments = <<"u1", "u2">>
    /\ \E i \in 1..2 :
          /\ comments.list[i].attributes.content = None
          /\ comments.list[i].attributes.attachments = TwoFormats

\* C10: every request carries the cursor's day and a page >= 1 that starts at
\* 1 on each day, none is for today's date, and a call that returns a list
\* has requested exactly the days from commentStartDate up to but excluding
\* today, in increasing order
C10_RequestedDays ==
    FrameLive =>
        /\ \A i \in 1..Len(reqs) :
              /\ reqs[i].posted = reqs[i].cur
              /\ reqs[i].page >= 1
              /\ reqs[i].posted # reqs[i].now
              /\ i = 1 => reqs[i].page = 1 /\ reqs[i].posted = fmt_date(oldest)
              /\ i > 1 => IF reqs[i - 1].last
                          THEN /\ reqs[i].page = 1
                               /\ reqs[i].posted = reqs[i - 1].posted + 1
                          ELSE /\ reqs[i].page = reqs[i - 1].page + 1
                               /\ reqs[i].posted = reqs[i - 1].posted
        /\ (Returned /\ comments # None) =>
              {reqs[i].posted : i \in 1..Len(reqs)}
                  = {d \in 0..MaxDay : fmt_date(oldest) <= d /\ d < today}

====
